---- MODULE Spec2Model ----
(***************************************************************************)
(* Model of the campo-vision backend's authentication core.                *)
(*                                                                         *)
(*   functions/common/auth.py  : verify_token, get_public_keys and the     *)
(*                               module-level globals keys and claims      *)
(*   layers/python/auth.py     : validate_token, get_token_from_header,    *)
(*                               require_auth                              *)
(*   functions/*/app.py        : the lambda handlers                       *)
(*                                                                         *)
(* A Python dict is a function whose domain is the set of keys present;    *)
(* None and the empty dict are both the empty function, which is sound     *)
(* here because the code only ever tests them with "if x" / "if not x".    *)
(***************************************************************************)
EXTENDS Integers, Sequences, FiniteSets, TLC

\* ------------------------------------------------------------------ bounds
\* Largest clock value and largest exp claim.
MaxTime == 2
\* The count of JWKS fetches stops growing at this value.
MaxFetches == 2

\* ------------------------------------------------------------ configuration
None == << >>
Absent == "-"

\* The issuer string built from region and pool id.
Issuer == "https://cognito-idp.R.amazonaws.com/P"
\* The JWKS document served by the identity provider: kids in order.
JWKS == << "k1", "k2" >>
\* Outcomes of urllib.request.urlopen + json.loads(...)['keys'].
FetchOutcomes == { "ok", "error" }
\* USER_POOL_CLIENT_ID as read from the environment (None when unset).
ClientIds == { "c0", "unset" }

\* ------------------------------------------------------------------ tokens
\* A token in raw form: one value per field, Absent where the field is
\* missing.  segs is the number of dot-separated segments, kid the header's
\* kid, sig the key the signature over header.payload was made with
\* ("forged" when made with no key of the provider), pjson whether the
\* payload segment decodes to a JSON object.
RawTokens ==
  [ segs : {1, 2, 3},
    kid  : {"k1", "k2", "x1", Absent},
    sig  : {"k1", "k2", "forged"},
    pjson : BOOLEAN,
    sub  : {"u1", "u2"},
    exp  : 0..MaxTime,
    iss  : {Issuer, "evil", Absent},
    aud  : {"c0", "c9", Absent},
    client_id : {"c0", "c9", Absent},
    token_use : {"access", "id", "refresh", Absent} ]

B2N(b) == IF b THEN 1 ELSE 0

\* Number of payload claims in which a raw token departs from the plain
\* access token (token_use access, client_id c0, no aud, iss = Issuer, an
\* exp); an id token (token_use id, aud c0, no client_id) counts as one
\* departure, a second honest user and a later exp as none.
PayloadDefects(r) ==
    B2N(r.exp = 0) + B2N(r.iss # Issuer)
  + (IF r.token_use = "access" /\ r.client_id = "c0" /\ r.aud = Absent THEN 0
     ELSE IF r.token_use = "id" /\ r.client_id = Absent /\ r.aud = "c0" THEN 1
     ELSE B2N(r.token_use # "access") + B2N(r.client_id # "c0")
          + B2N(r.aud # Absent))

\* Number of departures in the envelope: segment count, kid, signature,
\* payload encoding.  A token signed by the provider's second key and
\* naming it counts as one departure.
EnvelopeDefects(r) ==
    B2N(r.segs # 3) + B2N(~r.pjson)
  + (IF r.kid = "k1" /\ r.sig = "k1" THEN 0
     ELSE IF r.kid = "k2" /\ r.sig = "k2" THEN 1
     ELSE B2N(r.kid # "k1") + B2N(r.sig # "k1"))

ClaimKeys == {"sub", "exp", "iss", "aud", "client_id", "token_use"}

\* The dict the payload segment decodes to: exp 0 stands for "no exp claim".
Payload(r) ==
  IF ~r.pjson THEN None
  ELSE [ k \in { c \in ClaimKeys : IF c = "exp" THEN r.exp # 0 ELSE r[c] # Absent }
           |-> r[k] ]

Token(r) == [ segs |-> r.segs, kid |-> r.kid, sig |-> r.sig,
              pjson |-> r.pjson, payload |-> Payload(r) ]

\* The tokens presented to the verifiers: every token with a single
\* departure, and every forged-signature token whose payload has a single
\* departure.  An undecodable payload has one representative.
Tokens == { Token(r) : r \in { q \in RawTokens :
     /\ \/ EnvelopeDefects(q) + PayloadDefects(q) <= 1
        \/ /\ q.segs = 3 /\ q.kid = "k1" /\ q.sig = "forged" /\ q.pjson
           /\ PayloadDefects(q) <= 1
     /\ (~q.pjson => /\ q.sub = "u1" /\ q.exp = 1 /\ q.iss = Issuer
                     /\ q.aud = Absent /\ q.client_id = "c0"
                     /\ q.token_use = "access") } }

\* ----------------------------------------------------------- requests
\* The token with the list g under the payload key 'cognito:groups'.
WithGroups(token, g) ==
  [ token EXCEPT !.payload =
      [ k \in DOMAIN token.payload \cup { "cognito:groups" } |->
          IF k = "cognito:groups" THEN g ELSE token.payload[k] ] ]

\* The tokens that travel in Authorization headers, by name.
NamedTokens ==
  LET plain == [ segs |-> 3, kid |-> "k1", sig |-> "k1", pjson |-> TRUE,
                 sub |-> "u1", exp |-> MaxTime, iss |-> Issuer, aud |-> Absent,
                 client_id |-> "c0", token_use |-> "access" ]
  IN [ good1 |-> Token(plain),
       good2 |-> Token([plain EXCEPT !.sub = "u2"]),
       early |-> Token([plain EXCEPT !.exp = 1]),
       forged |-> Token([plain EXCEPT !.sig = "forged"]),
       nokid |-> Token([plain EXCEPT !.kid = "x1"]),
       refresh |-> Token([plain EXCEPT !.token_use = "refresh"]),
       other |-> Token([plain EXCEPT !.client_id = "c9"]),
       root |-> WithGroups(Token([plain EXCEPT !.sub = "u2"]), << "admin" >>),
       both |-> WithGroups(Token(plain), << "ops", "admin" >>),
       ops |-> WithGroups(Token(plain), << "ops" >>),
       nogroup |-> WithGroups(Token(plain), << >>) ]

\* A header part that names no token is a string without dots.
TokenOf(s) ==
  IF s \in DOMAIN NamedTokens THEN NamedTokens[s]
  ELSE [ segs |-> 1, kid |-> Absent, sig |-> "forged", pjson |-> FALSE,
         payload |-> None ]

\* parts whose lower() is 'bearer'
BearerWords == { "Bearer", "bearer", "BEARER" }

\* Values of the Authorization header, split on whitespace (the empty
\* value has no part).
HeaderValues ==
  { << >>, << "bearer", "good1" >>, << "Basic", "good1" >>, << "good1" >>,
    << "Bearer", "good1", "x" >>, << "Bearer", "Bearer", "good1" >> }
  \cup { << "Bearer", n >> : n \in DOMAIN NamedTokens }

\* The headers dict: the header under one of its spellings, or no header.
HeaderDicts ==
  { None } \cup { [ n \in { name } |-> v ] :
                    name \in {"Authorization", "authorization", "AUTHORIZATION"},
                    v \in HeaderValues }

\* One header per way the authentication of a request can end.
SomeHeaders ==
  { None, [ Authorization |-> << "Basic", "good1" >> ] }
  \cup { [ Authorization |-> << "Bearer", n >> ] : n \in DOMAIN NamedTokens }

Devices == { "d1", "d2" }
RequiredFields == { "deviceId", "latitude", "longitude", "temperature" }

\* Request bodies of ingest-telemetry: none, not JSON, or a JSON object
\* with some of the fields (numbers are all 1, the device is d1).
IngestFields == RequiredFields \cup { "timestamp" }
IngestBodies ==
  { [ kind |-> "none", json |-> None ], [ kind |-> "badjson", json |-> None ] }
  \cup { [ kind |-> "json",
           json |-> [ k \in ks |-> IF k = "deviceId" THEN d
                                   ELSE IF k = "timestamp" THEN ts ELSE 1 ] ] :
           ks \in { RequiredFields } \cup { IngestFields \ {f} : f \in IngestFields }
                  \cup { IngestFields },
           d \in { "d1" }, ts \in 1..MaxTime }

\* queryStringParameters of get-telemetry: none, or some of deviceId,
\* startTime and endTime.
QueryParams ==
  { [ k \in ks |-> IF k = "deviceId" THEN d
                   ELSE IF k = "startTime" THEN t1 ELSE t2 ] :
      ks \in SUBSET {"deviceId", "startTime", "endTime"},
      d \in Devices, t1 \in 1..MaxTime, t2 \in 1..MaxTime }

\* What the services a handler calls do during one request: all succeed,
\* the JWKS endpoint fails, or the table call raises.
Envs == { "ok", "jwks_error", "db_error" }
FetchOf(env) == IF env = "jwks_error" THEN "error" ELSE "ok"

\* Requests to get-telemetry: every header with one query string, and
\* every query string with a header that is accepted.
TelemetryEvents ==
  { [ httpMethod |-> m, headers |-> h, queryStringParameters |-> q ] :
      m \in { "OPTIONS", "GET" }, h \in HeaderDicts,
      q \in { [ deviceId |-> "d1" ] } }
  \cup
  { [ httpMethod |-> "GET", headers |-> h, queryStringParameters |-> q ] :
      h \in { [ Authorization |-> << "Bearer", "good1" >> ] },
      q \in QueryParams }

Users == { "u1", "u2" }
Companies == { "c1" }

\* A JSON request body with the keys ks, key k holding val[k].
Json(ks, val) == [ kind |-> "json", json |-> [ k \in ks |-> val[k] ] ]

\* Requests to manage-device (one device id can be registered, two can be
\* asked for): the method with the part of the event the
\* method reads (POST and PUT the body, GET and DELETE the query string),
\* the sub the API Gateway authorizer put in requestContext (Absent: no
\* claims), and an Authorization header the function never reads.
DeviceBodies ==
  { [ kind |-> "none", json |-> None ], [ kind |-> "badjson", json |-> None ] }
  \cup { Json(ks, [ deviceId |-> "d1", companyId |-> "c1", name |-> "n" ]) :
           ks \in SUBSET { "deviceId", "companyId", "name" } }
DeviceQueries == { None } \cup { [ deviceId |-> d ] : d \in Devices }
DeviceEvents ==
  { [ httpMethod |-> m, sub |-> u, headers |-> h, body |-> b,
      queryStringParameters |-> q ] :
      m \in { "POST", "PUT" }, u \in Users \cup { Absent },
      h \in { None }, b \in DeviceBodies, q \in { None } }
  \cup
  { [ httpMethod |-> m, sub |-> u, headers |-> h,
      body |-> [ kind |-> "none", json |-> None ],
      queryStringParameters |-> q ] :
      m \in { "GET", "DELETE", "OPTIONS", "PATCH" }, u \in Users \cup { Absent },
      h \in { None, [ Authorization |-> << "Bearer", "good1" >> ] },
      q \in DeviceQueries }

\* What DynamoDB and AWS IoT do during one manage-device request: all
\* succeed, the first or the second table call raises, or the IoT call
\* raises a ClientError or another exception.
DeviceEnvs == { "ok", "db1", "db2", "iot_client_error", "iot_error" }

\* Requests to manage-company: what each method reads (GET the query
\* string, the others the body), sent by the two users, and one update
\* sent under every header.  In a body, name is the new name.
CompanyIds == Companies \cup { "c2" }
NoBody == [ kind |-> "none", json |-> None ]
CompanyOps ==
  { [ httpMethod |-> m, body |-> NoBody, queryStringParameters |-> q ] :
      m \in { "GET" }, q \in { None } \cup { [ companyId |-> c ] : c \in CompanyIds } }
  \cup
  { [ httpMethod |-> "POST", body |-> b, queryStringParameters |-> None ] :
      b \in { NoBody, [ kind |-> "badjson", json |-> None ],
              Json({ "name" }, [ name |-> "n" ]) } }
  \cup
  { [ httpMethod |-> "PUT", body |-> b, queryStringParameters |-> None ] :
      b \in { NoBody, Json({ "name" }, [ name |-> "m" ]) }
            \cup { Json(ks, [ companyId |-> c, name |-> "m" ]) :
                     ks \in { { "companyId" }, { "companyId", "name" } },
                     c \in CompanyIds } }
  \cup
  { [ httpMethod |-> "DELETE", body |-> b, queryStringParameters |-> None ] :
      b \in { NoBody, [ kind |-> "badjson", json |-> None ] }
            \cup { Json({ "companyId" }, [ companyId |-> c ]) : c \in CompanyIds } }
  \cup
  { [ httpMethod |-> m, body |-> NoBody, queryStringParameters |-> None ] :
      m \in { "OPTIONS", "PATCH" } }

WithHeaders(op, h) ==
  [ httpMethod |-> op.httpMethod, headers |-> h, body |-> op.body,
    queryStringParameters |-> op.queryStringParameters ]

\* What the services do during one manage-company request: the JWKS fetch
\* fails, or it succeeds and the table call number fail raises (0: none
\* does); first is the user whose row a query returns first.
StorageCalls == 0 .. (3 + Cardinality(Users))
Env(fetch, fail, first) == [ fetch |-> fetch, fail |-> fail, first |-> first ]

\* The headers manage-company is sent its update under: those of
\* SomeHeaders and the values and names the extraction treats specially.
CompanyHeaders ==
  SomeHeaders
  \cup { [ Authorization |-> v ] :
           v \in { << "good1" >>, << "bearer", "good1" >>,
                   << "Bearer", "good1", "x" >>, << "Bearer", "Bearer", "good1" >> } }
  \cup { [ n \in { name } |-> << "Bearer", "good1" >> ] :
           name \in { "authorization", "AUTHORIZATION" } }

\* A request with what the services do while it is handled: each method
\* with the failures of the table calls it can issue (a DELETE issues up
\* to Max(StorageCalls) of them, the others two), and one update under
\* every header.
CompanyRequests ==
  { [ event |-> WithHeaders(op, [ Authorization |-> << "Bearer", n >> ]),
      env |-> Env("ok", k, u) ] :
      op \in { x \in CompanyOps : x.httpMethod = "DELETE" },
      n \in { "good1", "good2" }, k \in StorageCalls, u \in Users }
  \cup
  { [ event |-> WithHeaders(op, [ Authorization |-> << "Bearer", n >> ]),
      env |-> Env("ok", k, "u1") ] :
      op \in { x \in CompanyOps : x.httpMethod # "DELETE" },
      n \in { "good1", "good2" }, k \in 0..2 }
  \cup
  { [ event |-> WithHeaders([ httpMethod |-> m, queryStringParameters |-> None,
                              body |-> Json({ "companyId", "name" },
                                            [ companyId |-> "c1", name |-> "m" ]) ],
                            h),
      env |-> Env(f, 0, "u1") ] :
      m \in { "PUT", "OPTIONS" }, h \in CompanyHeaders, f \in FetchOutcomes }

\* Requests to manage-user-company: GET and DELETE read the query string,
\* POST the body; u9 is no user of the pool.  They are sent by u1 (in no
\* group) and by u2 (in group admin), and one GET is sent under every
\* header of SomeHeaders.
MemberQueries ==
  { None } \cup { [ userId |-> u ] : u \in Users }
  \cup { [ companyId |-> c ] : c \in CompanyIds }
  \cup { [ userId |-> u, companyId |-> c ] : u \in Users, c \in CompanyIds }
MemberBodies ==
  { NoBody, [ kind |-> "badjson", json |-> None ],
    Json({ "userId" }, [ userId |-> "u1" ]) }
  \cup { Json(ks, [ userId |-> u, companyId |-> c, role |-> "admin" ]) :
           ks \in { { "userId", "companyId" }, { "userId", "companyId", "role" } },
           u \in Users \cup { "u9" }, c \in CompanyIds }
MemberOps ==
  { [ httpMethod |-> m, body |-> NoBody, queryStringParameters |-> q ] :
      m \in { "GET", "DELETE" }, q \in MemberQueries }
  \cup
  { [ httpMethod |-> "POST", body |-> b, queryStringParameters |-> None ] :
      b \in MemberBodies }
  \cup
  { [ httpMethod |-> m, body |-> NoBody, queryStringParameters |-> None ] :
      m \in { "OPTIONS", "PUT" } }

\* cognito: what cognito.admin_get_user does for a user of the pool.
MemberEnv(fetch, fail, cognito) ==
  [ fetch |-> fetch, fail |-> fail, cognito |-> cognito ]
MemberRequests ==
  { [ event |-> WithHeaders(op, [ Authorization |-> << "Bearer", n >> ]),
      env |-> MemberEnv("ok", k, "ok") ] :
      op \in MemberOps, n \in { "good1", "root" }, k \in 0..2 }
  \cup
  { [ event |-> WithHeaders(op, [ Authorization |-> << "Bearer", n >> ]),
      env |-> MemberEnv("ok", 0, "ok") ] :
      op \in { x \in MemberOps : x.httpMethod \in { "POST", "DELETE" } },
      n \in { "ops", "nogroup" } }
  \cup
  { [ event |-> WithHeaders(op, [ Authorization |-> << "Bearer", n >> ]),
      env |-> MemberEnv("ok", 0, "error") ] :
      op \in { x \in MemberOps : x.httpMethod \in { "GET", "POST" } },
      n \in { "good1", "root" } }
  \cup
  { [ event |-> WithHeaders([ httpMethod |-> m, body |-> NoBody,
                              queryStringParameters |-> None ], h),
      env |-> MemberEnv(f, 0, "ok") ] :
      m \in { "GET", "OPTIONS" }, h \in SomeHeaders, f \in FetchOutcomes }

\* ------------------------------------------------------------------- state
VARIABLES
  now,     \* time.time(), in whole seconds
  client,  \* layers/python/auth.py USER_POOL_CLIENT_ID
  keys,    \* functions/common/auth.py global keys (None until fetched)
  claims,  \* functions/common/auth.py global claims (None until assigned)
  call,    \* the last verification call: function, token, returned value
  net,     \* urlopen calls of the verifier process: how many, any success
  device_table,        \* DEVICE_TABLE: deviceId -> row
  things,              \* the AWS IoT registry: thing names
  company_table,       \* COMPANY_TABLE: companyId -> row
  user_company_table,  \* USER_COMPANY_TABLE: << userId, companyId >> -> row
  deployed,            \* the functions that receive requests
  running,   \* invocations under way at the same time, each at a table call
  telemetry, \* the telemetry table: the (deviceId, timestamp) keys stored
  obs      \* the last handler invocation: request features and response

vars == << now, client, keys, claims, call, net, device_table, things,
           company_table, user_company_table, deployed, running, telemetry,
           obs >>

\* the tables of the device and company handlers, and the deployment
registry == << device_table, things >>
directory == << company_table, user_company_table >>

\* if x: / if not x: on a dict or a list
Truthy(x) == x # None

\* ------------------------------------------ functions/common/auth.py
\* get_public_keys storing a marker in the global keys when the fetch
\* fails.
get_public_keys_poisoned(k, fetch) ==
  IF Truthy(k) THEN [ ret |-> k, keys |-> k, fetched |-> FALSE ]
  ELSE IF fetch = "ok" THEN [ ret |-> JWKS, keys |-> JWKS, fetched |-> TRUE ]
  ELSE [ ret |-> None, keys |-> << "unavailable" >>, fetched |-> TRUE ]

\* get_public_keys(): returns the cached key list, else fetches it and
\* caches it on success.  Result: the value returned and the new global.
get_public_keys(k, fetch) ==
  IF Truthy(k) THEN [ ret |-> k, keys |-> k, fetched |-> FALSE ]
  ELSE IF fetch = "ok" THEN [ ret |-> JWKS, keys |-> JWKS, fetched |-> TRUE ]
  ELSE [ ret |-> None, keys |-> k, fetched |-> TRUE ]

\* jwt.get_unverified_headers(token)['kid'] succeeds
HeaderKidOk(token) == token.segs = 3 /\ token.kid # Absent

\* kid == keys[i]['kid'] for some i
KeyFound(kid, ks) == \E i \in 1..Len(ks) : ks[i] = kid

\* public_key.verify(message, decoded_signature) with the key named kid
SignatureOk(token, kid) == token.sig = kid

\* verify_token(token): the value returned (None on rejection), the log
\* line of the rejecting step, and the new values of both globals.
verify_token(token, c, k, fetch, t) ==
  IF Truthy(c) THEN
    [ ret |-> c, step |-> "cached", claims |-> c, keys |-> k, fetched |-> FALSE ]
  ELSE IF ~HeaderKidOk(token) THEN
    [ ret |-> None, step |-> IF token.segs # 3 THEN "structure" ELSE "header",
      claims |-> c, keys |-> k, fetched |-> FALSE ]
  ELSE LET g == get_public_keys(k, fetch)
           r(ret, step, cl) == [ ret |-> ret, step |-> step, claims |-> cl,
                                 keys |-> g.keys, fetched |-> g.fetched ]
       IN
    IF ~Truthy(g.ret) THEN r(None, "keys", c)
    ELSE IF ~KeyFound(token.kid, g.ret) THEN r(None, "kid", c)
    ELSE IF ~SignatureOk(token, token.kid) THEN r(None, "signature", c)
    ELSE IF ~token.pjson THEN r(None, "decode", c)
    ELSE LET p == token.payload IN
      \* from here on the global claims holds p, whatever is returned
      IF "exp" \notin DOMAIN p \/ t > p.exp THEN r(None, "exp", p)
      ELSE IF "iss" \notin DOMAIN p \/ p.iss # Issuer THEN r(None, "iss", p)
      ELSE r(p, "accept", p)

\* ------------------------------------------ layers/python/auth.py
Get(d, key) == IF key \in DOMAIN d THEN d[key] ELSE Absent

\* validate_token(token): ok is FALSE when the function raises; ret is the
\* dict returned; step names the check that raised.
validate_token(token, cid, fetch, t) ==
  LET r(ok, ret, step, f) == [ ok |-> ok, ret |-> ret, step |-> step,
                               fetched |-> f ]
  IN
  IF token.segs < 2 THEN r(FALSE, None, "structure", FALSE)
  ELSE IF token.kid = Absent THEN r(FALSE, None, "header", FALSE)
  ELSE IF fetch # "ok" THEN r(FALSE, None, "keys", TRUE)
  ELSE IF ~KeyFound(token.kid, JWKS) THEN r(FALSE, None, "kid", TRUE)
  ELSE IF token.segs < 3 \/ ~SignatureOk(token, token.kid) THEN
    r(FALSE, None, "signature", TRUE)
  ELSE IF ~token.pjson THEN r(FALSE, None, "decode", TRUE)
  ELSE LET p == token.payload
           client_id == IF Get(p, "client_id") # Absent
                        THEN Get(p, "client_id") ELSE Get(p, "aud")
       IN
      IF Get(p, "token_use") \notin {"access", "id"} THEN
        r(FALSE, None, "token_use", TRUE)
      ELSE IF client_id = Absent \/ client_id # cid THEN
        r(FALSE, None, "aud", TRUE)
      ELSE IF "exp" \notin DOMAIN p \/ t > p.exp THEN
        r(FALSE, None, "exp", TRUE)
      ELSE r(TRUE, p, "accept", TRUE)

\* get_token_from_header(event): the headers dict is looked up under
\* 'Authorization', then 'authorization'; the value (a list of its
\* whitespace-separated parts) must be 'bearer' plus one more part.
\* ok is FALSE when the function raises.
get_token_from_header(event) ==
  LET h == event.headers
      first == IF "Authorization" \in DOMAIN h THEN h["Authorization"] ELSE << >>
      auth_header == IF first # << >> THEN first
                     ELSE IF "authorization" \in DOMAIN h
                          THEN h["authorization"] ELSE << >>
  IN
    IF auth_header = << >> THEN
      [ ok |-> FALSE, token |-> Absent, step |-> "missing_header" ]
    ELSE IF Len(auth_header) # 2 \/ auth_header[1] \notin BearerWords THEN
      [ ok |-> FALSE, token |-> Absent, step |-> "malformed_header" ]
    ELSE
      [ ok |-> TRUE, token |-> auth_header[2], step |-> "extracted" ]

\* require_auth as it would be if a failed key fetch let the request on.
require_auth_keys_pass(event, cid, fetch, t) ==
  IF event.httpMethod = "OPTIONS" THEN
    [ ok |-> TRUE, ret |-> None, step |-> "options", calls |-> 0 ]
  ELSE LET x == get_token_from_header(event) IN
    IF ~x.ok THEN [ ok |-> FALSE, ret |-> None, step |-> x.step, calls |-> 0 ]
    ELSE LET v == validate_token(TokenOf(x.token), cid, fetch, t) IN
      [ ok |-> v.ok \/ v.step = "keys", ret |-> v.ret, step |-> v.step,
        calls |-> 1 ]

\* require_auth(event): None for OPTIONS, else the claims validate_token
\* returns for the extracted token.  calls counts the validate_token calls.
require_auth(event, cid, fetch, t) ==
  IF event.httpMethod = "OPTIONS" THEN
    [ ok |-> TRUE, ret |-> None, step |-> "options", calls |-> 0 ]
  ELSE LET x == get_token_from_header(event) IN
    IF ~x.ok THEN [ ok |-> FALSE, ret |-> None, step |-> x.step, calls |-> 0 ]
    ELSE LET v == validate_token(TokenOf(x.token), cid, fetch, t) IN
      [ ok |-> v.ok, ret |-> v.ret, step |-> v.step, calls |-> 1 ]

\* ------------------------------------------ the telemetry handlers
\* The request carries a header with a value, under some spelling.
HasAuthHeader(event) ==
  \E n \in DOMAIN event.headers : event.headers[n] # << >>

\* The request carries a value of two parts whose first is 'bearer' in some
\* letter case.
BearerValue(event) ==
  \E n \in DOMAIN event.headers :
    Len(event.headers[n]) = 2 /\ event.headers[n][1] \in BearerWords

\* logger.info(f"Received event: {event}"), the first statement of every
\* lambda_handler (the loggers are set to INFO): the record holds the event
\* whole, its headers included.
ReceivedEvent(event) == event

\* The log record holds the value of the request's Authorization header.
HoldsAuthValue(record, event) ==
  \E n \in DOMAIN event.headers :
    /\ event.headers[n] # << >>
    /\ n \in DOMAIN record.headers
    /\ record.headers[n] = event.headers[n]

\* What a handler invocation is observed to do.  verified: number of token
\* verifications run; authOk: one of them accepted; user: the sub the
\* handler goes on with; reads/writes: storage calls issued; status: the
\* statusCode returned; count: the number of rows returned; logsAuth: a log
\* record of the invocation holds the Authorization value.
Observation(h, event, n, a, u, r, w, st, it) ==
  [ handler |-> h, method |-> event.httpMethod,
    hasAuthHeader |-> HasAuthHeader(event), bearer |-> BearerValue(event),
    verified |-> n, authOk |-> a, user |-> u, reads |-> r, writes |-> w,
    status |-> st, count |-> it,
    logsAuth |-> HoldsAuthValue(ReceivedEvent(event), event) ]

\* The headers of a response built without the CORS keys.
plain_headers == [ n \in { "Content-Type" } |-> "application/json" ]

\* The response headers every return site builds (the other CORS keys and
\* Content-Type are left out).
cors_headers == [ n \in { "Access-Control-Allow-Origin" } |-> "*" ]

\* The observation o with the response's headers and the 'error' and
\* 'message' keys of its JSON body (Absent when the body has no such key;
\* any message text is "text"), and the step the authentication ended at.
Respond(o, step, hd, err, msg) ==
  [ handler |-> o.handler, method |-> o.method,
    hasAuthHeader |-> o.hasAuthHeader, bearer |-> o.bearer,
    verified |-> o.verified,
    authOk |-> o.authOk, user |-> o.user, reads |-> o.reads,
    writes |-> o.writes, status |-> o.status, count |-> o.count,
    logsAuth |-> o.logsAuth,
    step |-> step, headers |-> hd, error |-> err, message |-> msg ]

NoObs ==
  Respond(Observation("none", [ httpMethod |-> "none", headers |-> None ], 0,
                      FALSE, Absent, FALSE, FALSE, 0, 0),
          "none", None, Absent, Absent)

\* functions/ingest-telemetry/app.py lambda_handler: the response and the
\* table after it.  dbOk: table.put_item does not raise.
ingest_telemetry(event, tbl, t, dbOk) ==
  LET b == event.body
      o(r, w, st, err, msg) ==
        Respond(Observation("ingest-telemetry", event, 0, FALSE, Absent, r, w, st, 0),
                "none", cors_headers, err, msg)
  IN
    IF event.httpMethod = "OPTIONS" THEN
      [ obs |-> o(FALSE, FALSE, 200, Absent, Absent), tbl |-> tbl ]
    ELSE IF b.kind = "none" THEN
      [ obs |-> o(FALSE, FALSE, 400, "Missing request body", Absent), tbl |-> tbl ]
    ELSE IF b.kind = "badjson" THEN
      [ obs |-> o(FALSE, FALSE, 400, "Invalid JSON in request body", Absent),
        tbl |-> tbl ]
    ELSE IF \E f \in RequiredFields : f \notin DOMAIN b.json THEN
      [ obs |-> o(FALSE, FALSE, 400, "Missing required field", Absent),
        tbl |-> tbl ]
    ELSE LET timestamp == IF "timestamp" \in DOMAIN b.json
                          THEN b.json.timestamp ELSE t
             item == [ deviceId |-> b.json.deviceId, timestamp |-> timestamp ]
         IN
      IF ~dbOk THEN
        [ obs |-> o(FALSE, TRUE, 500, "Internal server error", "text"),
          tbl |-> tbl ]
      ELSE [ obs |-> o(FALSE, TRUE, 201, Absent, "text"),
             tbl |-> tbl \cup { item } ]

\* functions/get-telemetry/app.py lambda_handler.  dbOk: table.query does
\* not raise.
get_telemetry(event, tbl, cid, fetch, t, dbOk) ==
  LET q == event.queryStringParameters
      o(step, n, a, u, r, st, it, err, msg) ==
        Respond(Observation("get-telemetry", event, n, a, u, r, FALSE, st, it),
                step, cors_headers, err, msg)
  IN
    IF event.httpMethod = "OPTIONS" THEN
      o("none", 0, FALSE, Absent, FALSE, 200, 0, Absent, Absent)
    ELSE LET c == require_auth(event, cid, fetch, t)
             u == Get(c.ret, "sub")
         IN
      IF ~c.ok THEN
        o(c.step, c.calls, FALSE, Absent, FALSE, 401, 0, "Unauthorized", "text")
      ELSE IF q = None THEN
        o(c.step, c.calls, TRUE, u, FALSE, 400, 0, "Missing query parameters",
          Absent)
      ELSE IF "deviceId" \notin DOMAIN q THEN
        o(c.step, c.calls, TRUE, u, FALSE, 400, 0,
          "Missing required parameter: deviceId", Absent)
      ELSE IF ~dbOk THEN
        o(c.step, c.calls, TRUE, u, TRUE, 500, 0, "Internal server error", "text")
      ELSE o(c.step, c.calls, TRUE, u, TRUE, 200, Cardinality(
             { i \in tbl : /\ i.deviceId = q.deviceId
                           /\ ("startTime" \in DOMAIN q => i.timestamp >= q.startTime)
                           /\ ("endTime" \in DOMAIN q => i.timestamp <= q.endTime) }),
             Absent, Absent)

\* ------------------------------- functions/common/auth.py, requests
\* extract_token_from_header(event): the token, or None (here Absent) when
\* there is no header, when it is no Bearer header, or on any exception.
extract_token_from_header(event) ==
  LET h == event.headers
      first == IF "Authorization" \in DOMAIN h THEN h["Authorization"] ELSE << >>
      auth_header == IF first # << >> THEN first
                     ELSE IF "authorization" \in DOMAIN h
                          THEN h["authorization"] ELSE << >>
  IN
    IF auth_header = << >> THEN [ token |-> Absent, step |-> "missing_header" ]
    ELSE IF auth_header[1] \notin BearerWords \/ Len(auth_header) # 2 THEN
      [ token |-> Absent, step |-> "malformed_header" ]
    ELSE [ token |-> auth_header[2], step |-> "extracted" ]

\* get_user_from_event(event): user is the dict returned (None when there
\* is no token or verify_token returns nothing); claims and keys are the
\* globals afterwards.
get_user_from_event(event, c, k, fetch, t) ==
  LET x == extract_token_from_header(event)
      v == verify_token(TokenOf(x.token), c, k, fetch, t)
  IN
    IF x.token = Absent THEN
      [ user |-> None, step |-> x.step, calls |-> 0, claims |-> c, keys |-> k,
        fetched |-> FALSE ]
    ELSE IF ~Truthy(v.ret) THEN
      [ user |-> None, step |-> v.step, calls |-> 1, claims |-> v.claims,
        keys |-> v.keys, fetched |-> v.fetched ]
    ELSE
      [ user |-> [ user_id |-> Get(v.ret, "sub") ], step |-> v.step,
        calls |-> 1, claims |-> v.claims, keys |-> v.keys,
        fetched |-> v.fetched ]

\* require_auth(event) of functions/common/auth.py: the 401 response, or
\* None (status 0 here) when the request may go on.  The module logs fixed
\* texts and exception texts, never the event.
common_require_auth(event, c, k, fetch, t) ==
  LET g == get_user_from_event(event, c, k, fetch, t)
      o(a, u, st, hd, err, msg) ==
        [ Respond(Observation("common-auth", event, g.calls, a, u, FALSE,
                              FALSE, st, 0),
                  g.step, hd, err, msg)
          EXCEPT !.logsAuth = FALSE ]
  IN
    [ obs |-> IF ~Truthy(g.user)
              THEN o(FALSE, Absent, 401, cors_headers, "Unauthorized", "text")
              ELSE o(TRUE, g.user.user_id, 0, None, Absent, Absent),
      claims |-> g.claims, keys |-> g.keys, fetched |-> g.fetched ]

\* --------------------------------------------- the device handlers
\* A table after put_item / delete_item under key k.
Put(tbl, k, row) ==
  [ x \in DOMAIN tbl \cup { k } |-> IF x = k THEN row ELSE tbl[x] ]
Delete(tbl, k) == [ x \in DOMAIN tbl \ { k } |-> tbl[x] ]

\* What manage-device returns and leaves behind: the observation, the
\* device table and the IoT registry.
DeviceReply(event, u, tbl, th, r, w, st, err, msg) ==
  [ obs |-> Respond(Observation("manage-device", event, 0, u # Absent, u, r, w,
                                st, 0),
                    IF u = Absent THEN "missing_user" ELSE "none",
                    cors_headers, err, msg),
    tbl |-> tbl, things |-> th ]

\* register_device without the look-up of an existing row.
register_device_overwrite(event, user_id, tbl, th, env) ==
  LET b == event.body
      device_id == Get(b.json, "deviceId")
      company_id == Get(b.json, "companyId")
      name == IF Get(b.json, "name") = Absent THEN "" ELSE b.json.name
      device_item == [ deviceId |-> device_id, companyId |-> company_id,
                       name |-> name, createdBy |-> user_id ]
      o(t2, h2, r, w, st, err, msg) ==
        DeviceReply(event, user_id, t2, h2, r, w, st, err, msg)
  IN
    IF b.kind # "json" THEN
      o(tbl, th, FALSE, FALSE, 500, "Error registering device", Absent)
    ELSE IF device_id = Absent THEN
      o(tbl, th, FALSE, FALSE, 400, "Device ID is required", Absent)
    ELSE IF company_id = Absent THEN
      o(tbl, th, FALSE, FALSE, 400, "Company ID is required", Absent)
    ELSE IF env = "db2" THEN
      o(tbl, th, FALSE, TRUE, 500, "Error registering device", Absent)
    ELSE IF env = "iot_error" THEN
      o(Put(tbl, device_id, device_item), th, FALSE, TRUE, 500,
        "Error registering device", Absent)
    ELSE IF env = "iot_client_error" THEN
      o(Put(tbl, device_id, device_item), th, FALSE, TRUE, 201, Absent, "text")
    ELSE
      o(Put(tbl, device_id, device_item), th \cup { device_id }, FALSE, TRUE,
        201, Absent, "text")

\* functions/manage-device/app.py register_device
register_device(event, user_id, tbl, th, env) ==
  LET b == event.body
      device_id == Get(b.json, "deviceId")
      company_id == Get(b.json, "companyId")
      name == IF Get(b.json, "name") = Absent THEN "" ELSE b.json.name
      device_item == [ deviceId |-> device_id, companyId |-> company_id,
                       name |-> name, createdBy |-> user_id ]
      o(t2, h2, r, w, st, err, msg) ==
        DeviceReply(event, user_id, t2, h2, r, w, st, err, msg)
  IN
    IF b.kind # "json" THEN
      o(tbl, th, FALSE, FALSE, 500, "Error registering device", Absent)
    ELSE IF device_id = Absent THEN
      o(tbl, th, FALSE, FALSE, 400, "Device ID is required", Absent)
    ELSE IF company_id = Absent THEN
      o(tbl, th, FALSE, FALSE, 400, "Company ID is required", Absent)
    ELSE IF env = "db1" THEN
      o(tbl, th, TRUE, FALSE, 500, "Error checking device existence", Absent)
    ELSE IF device_id \in DOMAIN tbl THEN
      o(tbl, th, TRUE, FALSE, 409, "Device already exists", Absent)
    ELSE IF env = "db2" THEN
      o(tbl, th, TRUE, TRUE, 500, "Error registering device", Absent)
    ELSE IF env = "iot_error" THEN
      o(Put(tbl, device_id, device_item), th, TRUE, TRUE, 500,
        "Error registering device", Absent)
    ELSE IF env = "iot_client_error" THEN
      o(Put(tbl, device_id, device_item), th, TRUE, TRUE, 201, Absent, "text")
    ELSE
      o(Put(tbl, device_id, device_item), th \cup { device_id }, TRUE, TRUE,
        201, Absent, "text")

\* functions/manage-device/app.py get_device
get_device(event, user_id, tbl, th, env) ==
  LET q == event.queryStringParameters
      device_id == Get(q, "deviceId")
      o(r, st, err) == DeviceReply(event, user_id, tbl, th, r, FALSE, st, err,
                                   Absent)
  IN
    IF device_id = Absent THEN o(FALSE, 400, "Device ID is required")
    ELSE IF env = "db1" THEN o(TRUE, 500, "Error getting device")
    ELSE IF device_id \notin DOMAIN tbl THEN o(TRUE, 404, "Device not found")
    ELSE o(TRUE, 200, Absent)

\* functions/manage-device/app.py update_device
update_device(event, user_id, tbl, th, env) ==
  LET b == event.body
      device_id == Get(b.json, "deviceId")
      o(t2, r, w, st, err, msg) ==
        DeviceReply(event, user_id, t2, th, r, w, st, err, msg)
  IN
    IF b.kind # "json" THEN
      o(tbl, FALSE, FALSE, 500, "Error updating device", Absent)
    ELSE IF device_id = Absent THEN
      o(tbl, FALSE, FALSE, 400, "Device ID is required", Absent)
    ELSE IF env = "db1" THEN
      o(tbl, TRUE, FALSE, 500, "Error updating device", Absent)
    ELSE IF device_id \notin DOMAIN tbl THEN
      o(tbl, TRUE, FALSE, 404, "Device not found", Absent)
    ELSE IF env = "db2" THEN
      o(tbl, TRUE, TRUE, 500, "Error updating device", Absent)
    ELSE
      o(IF "name" \in DOMAIN b.json
        THEN Put(tbl, device_id, [ tbl[device_id] EXCEPT !.name = b.json.name ])
        ELSE tbl,
        TRUE, TRUE, 200, Absent, "text")

\* functions/manage-device/app.py delete_device (no certificate is attached
\* to a thing; the IoT call that fails is delete_thing)
delete_device(event, user_id, tbl, th, env) ==
  LET q == event.queryStringParameters
      device_id == Get(q, "deviceId")
      o(t2, h2, r, w, st, err, msg) ==
        DeviceReply(event, user_id, t2, h2, r, w, st, err, msg)
  IN
    IF device_id = Absent THEN
      o(tbl, th, FALSE, FALSE, 400, "Device ID is required", Absent)
    ELSE IF env = "db1" THEN
      o(tbl, th, TRUE, FALSE, 500, "Error deleting device", Absent)
    ELSE IF device_id \notin DOMAIN tbl THEN
      o(tbl, th, TRUE, FALSE, 404, "Device not found", Absent)
    ELSE IF env = "db2" THEN
      o(tbl, th, TRUE, TRUE, 500, "Error deleting device", Absent)
    ELSE IF env = "iot_error" THEN
      o(Delete(tbl, device_id), th, TRUE, TRUE, 500, "Error deleting device",
        Absent)
    ELSE IF env = "iot_client_error" THEN
      o(Delete(tbl, device_id), th, TRUE, TRUE, 200, Absent, "text")
    ELSE
      o(Delete(tbl, device_id), th \ { device_id }, TRUE, TRUE, 200, Absent,
        "text")

\* functions/manage-device/app.py lambda_handler
manage_device(event, tbl, th, env) ==
  LET user_id == event.sub IN
    IF event.httpMethod = "OPTIONS" THEN
      [ obs |-> Respond(Observation("manage-device", event, 0, FALSE, Absent,
                                    FALSE, FALSE, 200, 0),
                        "none", cors_headers, Absent, Absent),
        tbl |-> tbl, things |-> th ]
    ELSE IF user_id = Absent THEN
      DeviceReply(event, Absent, tbl, th, FALSE, FALSE, 401, "Unauthorized",
                  Absent)
    ELSE IF event.httpMethod = "POST" THEN
      register_device(event, user_id, tbl, th, env)
    ELSE IF event.httpMethod = "GET" THEN
      get_device(event, user_id, tbl, th, env)
    ELSE IF event.httpMethod = "PUT" THEN
      update_device(event, user_id, tbl, th, env)
    ELSE IF event.httpMethod = "DELETE" THEN
      delete_device(event, user_id, tbl, th, env)
    ELSE
      DeviceReply(event, user_id, tbl, th, FALSE, FALSE, 400,
                  "Unsupported HTTP method", Absent)

\* list-devices without its own OPTIONS branch, relying on require_auth
\* returning None for OPTIONS.
list_devices_no_preflight(event, tbl, cid, fetch, t, dbOk) ==
  LET q == event.queryStringParameters
      o(step, n, a, u, r, st, it, err, msg) ==
        Respond(Observation("list-devices", event, n, a, u, r, FALSE, st, it),
                step, cors_headers, err, msg)
      c == require_auth(event, cid, fetch, t)
      u == Get(c.ret, "sub")
  IN
    IF ~c.ok THEN
      o(c.step, c.calls, FALSE, Absent, FALSE, 401, 0, "Unauthorized", "text")
    ELSE IF ~dbOk THEN
      o(c.step, c.calls, TRUE, u, TRUE, 500, 0, "Internal server error", "text")
    ELSE o(c.step, c.calls, TRUE, u, TRUE, 200,
           Cardinality({ d \in DOMAIN tbl :
                           "companyId" \in DOMAIN q =>
                             tbl[d].companyId = q.companyId }),
           Absent, Absent)

\* functions/list-devices/app.py lambda_handler.  dbOk: the query or scan of
\* the device table does not raise (a failing telemetry query is caught).
list_devices(event, tbl, cid, fetch, t, dbOk) ==
  LET q == event.queryStringParameters
      o(step, n, a, u, r, st, it, err, msg) ==
        Respond(Observation("list-devices", event, n, a, u, r, FALSE, st, it),
                step, cors_headers, err, msg)
  IN
    IF event.httpMethod = "OPTIONS" THEN
      o("none", 0, FALSE, Absent, FALSE, 200, 0, Absent, Absent)
    ELSE LET c == require_auth(event, cid, fetch, t)
             u == Get(c.ret, "sub")
         IN
      IF ~c.ok THEN
        o(c.step, c.calls, FALSE, Absent, FALSE, 401, 0, "Unauthorized", "text")
      ELSE IF ~dbOk THEN
        o(c.step, c.calls, TRUE, u, TRUE, 500, 0, "Internal server error", "text")
      ELSE o(c.step, c.calls, TRUE, u, TRUE, 200,
             Cardinality({ d \in DOMAIN tbl :
                             "companyId" \in DOMAIN q =>
                               tbl[d].companyId = q.companyId }),
             Absent, Absent)

\* --------------------------------------------- the company handlers
\* str.replace('Bearer ', '') on a header value given by its parts: every
\* part 'Bearer' that another part follows goes.
RECURSIVE replace_bearer(_)
replace_bearer(parts) ==
  IF parts = << >> THEN << >>
  ELSE IF Head(parts) = "Bearer" /\ Len(parts) > 1 THEN
    replace_bearer(Tail(parts))
  ELSE << Head(parts) >> \o replace_bearer(Tail(parts))

\* The token a string of several parts is to validate_token: text before
\* the first segment makes the header undecodable, text after the last
\* one makes the signature undecodable.
StringToken(parts) ==
  IF Len(parts) = 0 THEN TokenOf("")
  ELSE IF Len(parts) = 1 THEN TokenOf(parts[1])
  ELSE IF parts[1] \in DOMAIN NamedTokens THEN
    [ TokenOf(parts[1]) EXCEPT !.sig = "forged" ]
  ELSE [ TokenOf(parts[Len(parts)]) EXCEPT !.kid = Absent ]

\* get_user_id_from_token(claims)
get_user_id_from_token(c) == Get(c, "sub")

\* The members of a company in the order a query of CompanyIndex returns
\* them: first comes first.
Associations(uct, company_id, first) ==
  LET us == { u \in Users : << u, company_id >> \in DOMAIN uct }
      rest == CHOOSE u \in Users : u # first
  IN IF us = Users THEN << first, rest >>
     ELSE IF us = {} THEN << >>
     ELSE << CHOOSE u \in us : TRUE >>

\* What manage-company returns and leaves behind.  company: the companyId
\* of the request; fault: the table call that raised.
CompanyReply(event, c, u, company, fault, ct, uct, r, w, st, msg) ==
  [ obs |-> Respond(Observation("manage-company", event, c.calls, c.ok, u, r, w,
                                st, 0),
                    c.step, cors_headers, Absent, msg),
    company |-> company, fault |-> fault, ct |-> ct, uct |-> uct ]

\* functions/manage-company/app.py get_company
get_company(event, c, user_id, ct, uct, env) ==
  LET company_id == Get(event.queryStringParameters, "companyId")
      o(fault, r, st, msg) ==
        CompanyReply(event, c, user_id, company_id, fault, ct, uct, r, FALSE,
                     st, msg)
  IN
    IF company_id = Absent THEN o("none", FALSE, 400, "text")
    ELSE IF env.fail = 1 THEN o("company", TRUE, 500, "text")
    ELSE IF company_id \notin DOMAIN ct THEN o("none", TRUE, 404, "text")
    ELSE o("none", TRUE, 200, Absent)

\* functions/manage-company/app.py create_company.  company_id: the id
\* uuid4 generates.
create_company(event, c, user_id, ct, uct, env, company_id) ==
  LET b == event.body
      company_name == Get(b.json, "name")
      company == [ companyId |-> company_id, name |-> company_name,
                   createdBy |-> user_id ]
      user_company == [ userId |-> user_id, companyId |-> company_id,
                        role |-> "admin" ]
      o(fault, t2, m2, w, st) ==
        CompanyReply(event, c, user_id, company_id, fault, t2, m2, FALSE, w,
                     st, "text")
  IN
    IF b.kind = "badjson" THEN o("none", ct, uct, FALSE, 500)
    ELSE IF company_name = Absent THEN o("none", ct, uct, FALSE, 400)
    ELSE IF env.fail = 1 THEN o("company", ct, uct, TRUE, 500)
    ELSE IF env.fail = 2 THEN
      o("membership", Put(ct, company_id, company), uct, TRUE, 500)
    ELSE o("none", Put(ct, company_id, company),
           Put(uct, << user_id, company_id >>, user_company), TRUE, 201)

\* The role of the membership row get_item returns, Absent when there is
\* no row.
RoleOf(uct, user_id, company_id) ==
  IF << user_id, company_id >> \in DOMAIN uct
  THEN uct[<< user_id, company_id >>].role ELSE Absent

\* update_company letting every member of the company update it.
update_company_any_member(event, c, user_id, ct, uct, env) ==
  LET b == event.body
      company_id == Get(b.json, "companyId")
      company_name == Get(b.json, "name")
      old == IF company_id \in DOMAIN ct THEN ct[company_id]
             ELSE [ companyId |-> company_id, name |-> Absent,
                    createdBy |-> Absent ]
      o(fault, t2, r, w, st) ==
        CompanyReply(event, c, user_id, company_id, fault, t2, uct, r, w, st,
                     "text")
  IN
    IF b.kind = "badjson" THEN o("none", ct, FALSE, FALSE, 500)
    ELSE IF company_id = Absent THEN o("none", ct, FALSE, FALSE, 400)
    ELSE IF env.fail = 1 THEN o("lookup", ct, TRUE, FALSE, 500)
    ELSE IF RoleOf(uct, user_id, company_id) = Absent THEN
      o("none", ct, TRUE, FALSE, 403)
    ELSE IF env.fail = 2 THEN o("company", ct, TRUE, TRUE, 500)
    ELSE o("none",
           Put(ct, company_id,
               IF company_name = Absent THEN old
               ELSE [ old EXCEPT !.name = company_name ]),
           TRUE, TRUE, 200)

\* functions/manage-company/app.py update_company (update_item creates the
\* row when there is none)
update_company(event, c, user_id, ct, uct, env) ==
  LET b == event.body
      company_id == Get(b.json, "companyId")
      company_name == Get(b.json, "name")
      old == IF company_id \in DOMAIN ct THEN ct[company_id]
             ELSE [ companyId |-> company_id, name |-> Absent,
                    createdBy |-> Absent ]
      o(fault, t2, r, w, st) ==
        CompanyReply(event, c, user_id, company_id, fault, t2, uct, r, w, st,
                     "text")
  IN
    IF b.kind = "badjson" THEN o("none", ct, FALSE, FALSE, 500)
    ELSE IF company_id = Absent THEN o("none", ct, FALSE, FALSE, 400)
    ELSE IF env.fail = 1 THEN o("lookup", ct, TRUE, FALSE, 500)
    ELSE IF RoleOf(uct, user_id, company_id) # "admin" THEN
      o("none", ct, TRUE, FALSE, 403)
    ELSE IF env.fail = 2 THEN o("company", ct, TRUE, TRUE, 500)
    ELSE o("none",
           Put(ct, company_id,
               IF company_name = Absent THEN old
               ELSE [ old EXCEPT !.name = company_name ]),
           TRUE, TRUE, 200)

\* The membership table after the rows of the first n users of assoc are
\* deleted.
RECURSIVE DeleteRows(_, _, _, _)
DeleteRows(uct, assoc, company_id, n) ==
  IF n = 0 THEN uct
  ELSE Delete(DeleteRows(uct, assoc, company_id, n - 1),
              << assoc[n], company_id >>)

\* functions/manage-company/app.py delete_company: table call 1 is the
\* get_item of the requester's row, 2 the query, 3.. the delete_item of
\* each row, the last one the delete_item of the company.
delete_company(event, c, user_id, ct, uct, env) ==
  LET b == event.body
      company_id == Get(b.json, "companyId")
      assoc == Associations(uct, company_id, env.first)
      o(fault, t2, m2, r, w, st) ==
        CompanyReply(event, c, user_id, company_id, fault, t2, m2, r, w, st,
                     "text")
  IN
    IF b.kind = "badjson" THEN o("none", ct, uct, FALSE, FALSE, 500)
    ELSE IF company_id = Absent THEN o("none", ct, uct, FALSE, FALSE, 400)
    ELSE IF env.fail = 1 THEN o("lookup", ct, uct, TRUE, FALSE, 500)
    ELSE IF RoleOf(uct, user_id, company_id) # "admin" THEN
      o("none", ct, uct, TRUE, FALSE, 403)
    ELSE IF env.fail = 2 THEN o("query", ct, uct, TRUE, FALSE, 500)
    ELSE IF env.fail \in 3 .. (2 + Len(assoc)) THEN
      o("membership", ct, DeleteRows(uct, assoc, company_id, env.fail - 3),
        TRUE, TRUE, 500)
    ELSE IF env.fail = 3 + Len(assoc) THEN
      o("company", ct, DeleteRows(uct, assoc, company_id, Len(assoc)),
        TRUE, TRUE, 500)
    ELSE o("none", Delete(ct, company_id),
           DeleteRows(uct, assoc, company_id, Len(assoc)), TRUE, TRUE, 200)

\* functions/manage-company/app.py lambda_handler
manage_company(event, ct, uct, cid, t, env, company_id) ==
  LET h == event.headers
      first == IF "Authorization" \in DOMAIN h THEN h["Authorization"] ELSE << >>
      auth_header == IF first # << >> THEN first
                     ELSE IF "authorization" \in DOMAIN h
                          THEN h["authorization"] ELSE << >>
      token == replace_bearer(auth_header)
      v == validate_token(StringToken(token), cid, env.fetch, t)
      c == [ ok |-> v.ok, step |-> v.step, calls |-> 1 ]
      user_id == get_user_id_from_token(v.ret)
      none == [ ok |-> FALSE, step |-> "none", calls |-> 0 ]
  IN
    IF event.httpMethod = "OPTIONS" THEN
      CompanyReply(event, none, Absent, Absent, "none", ct, uct, FALSE, FALSE,
                   200, Absent)
    ELSE IF ~v.ok THEN
      CompanyReply(event, c, Absent, Absent, "none", ct, uct, FALSE, FALSE,
                   401, "text")
    ELSE IF event.httpMethod = "GET" THEN
      get_company(event, c, user_id, ct, uct, env)
    ELSE IF event.httpMethod = "POST" THEN
      create_company(event, c, user_id, ct, uct, env, company_id)
    ELSE IF event.httpMethod = "PUT" THEN
      update_company(event, c, user_id, ct, uct, env)
    ELSE IF event.httpMethod = "DELETE" THEN
      delete_company(event, c, user_id, ct, uct, env)
    ELSE CompanyReply(event, c, user_id, Absent, "none", ct, uct, FALSE, FALSE,
                      400, "text")

\* ------------------------------------------ manage-user-company
\* is_admin_user testing only that the user is in some group.
is_admin_user_any_group(c) ==
  IF "cognito:groups" \notin DOMAIN c THEN "None"
  ELSE IF c["cognito:groups"] = << >> THEN "[]"
  ELSE "True"

\* functions/manage-user-company/app.py is_admin_user: the Python value of
\* claims.get('cognito:groups') and 'admin' in claims.get('cognito:groups'),
\* written as Python prints it.
is_admin_user(c) ==
  IF "cognito:groups" \notin DOMAIN c THEN "None"
  ELSE IF c["cognito:groups"] = << >> THEN "[]"
  ELSE IF \E i \in DOMAIN c["cognito:groups"] : c["cognito:groups"][i] = "admin"
       THEN "True"
  ELSE "False"

\* bool(v) of such a value
Bool(v) == v = "True"

\* user_belongs_to_company testing that get_item answered, not that it
\* found an Item.
user_belongs_to_company_any(uct, user_id, company_id) ==
  TRUE

\* user_belongs_to_company
user_belongs_to_company(uct, user_id, company_id) ==
  << user_id, company_id >> \in DOMAIN uct

\* What manage-user-company returns and leaves behind.  target and company:
\* the userId and companyId of the request.
MemberReply(event, c, u, adm, target, company, uct, r, w, st, it, err, msg) ==
  [ obs |-> Respond(Observation("manage-user-company", event, c.calls, c.ok, u, r, w,
                                st, it),
                    c.step, cors_headers, err, msg),
    isAdmin |-> adm, target |-> target, company |-> company, uct |-> uct ]

\* The companies of user_id that have a row in the company table.
CompaniesOf(ct, uct, user_id) ==
  { k[2] : k \in { x \in DOMAIN uct : x[1] = user_id /\ x[2] \in DOMAIN ct } }

\* handle_get_request: table call 1 is the first query or get_item, 2 the
\* next one.
handle_get_request(event, c, adm, ct, uct, env) ==
  LET q == event.queryStringParameters
      authenticated_user_id == Get(c.ret, "sub")
      user_id == Get(q, "userId")
      company_id == Get(q, "companyId")
      o(r, st, it, err, msg) ==
        MemberReply(event, c, authenticated_user_id, adm, user_id, company_id,
                    uct, r, FALSE, st, it, err, msg)
      listing(u) ==
        IF env.fail = 1 THEN o(TRUE, 500, 0, "Internal server error", "text")
        ELSE IF env.fail = 2 /\ \E k \in DOMAIN uct : k[1] = u THEN
          o(TRUE, 500, 0, "Internal server error", "text")
        ELSE o(TRUE, 200, Cardinality(CompaniesOf(ct, uct, u)), Absent, Absent)
  IN
    IF user_id # Absent THEN
      IF user_id # authenticated_user_id /\ ~Bool(adm) THEN
        o(FALSE, 403, 0, "Forbidden", "text")
      ELSE listing(user_id)
    ELSE IF company_id # Absent THEN
      IF ~Bool(adm) /\ env.fail = 1 THEN
        o(TRUE, 500, 0, "Internal server error", "text")
      ELSE IF ~Bool(adm)
              /\ ~user_belongs_to_company(uct, authenticated_user_id, company_id)
      THEN o(TRUE, 403, 0, "Forbidden", "text")
      ELSE IF env.fail = (IF Bool(adm) THEN 1 ELSE 2) THEN
        o(TRUE, 500, 0, "Internal server error", "text")
      ELSE o(TRUE, 200,
             IF env.cognito = "ok"
             THEN Cardinality({ k \in DOMAIN uct : k[2] = company_id })
             ELSE 0,
             Absent, Absent)
    ELSE listing(authenticated_user_id)

\* handle_post_request: table call 1 is the get_item of the company, 2 the
\* put_item of the membership row.
handle_post_request(event, c, adm, ct, uct, env) ==
  LET b == event.body
      user_id == Get(b.json, "userId")
      company_id == Get(b.json, "companyId")
      role == IF Get(b.json, "role") = Absent THEN "user" ELSE b.json.role
      row == [ userId |-> user_id, companyId |-> company_id, role |-> role ]
      o(m2, r, w, st, err, msg) ==
        MemberReply(event, c, Get(c.ret, "sub"), adm, user_id, company_id, m2,
                    r, w, st, 0, err, msg)
  IN
    IF b.kind = "none" THEN
      o(uct, FALSE, FALSE, 500, "Internal server error", "text")
    ELSE IF b.kind = "badjson" THEN
      o(uct, FALSE, FALSE, 400, "Bad Request", "text")
    ELSE IF user_id = Absent \/ company_id = Absent THEN
      o(uct, FALSE, FALSE, 400, "Bad Request", "text")
    ELSE IF ~Bool(adm) THEN o(uct, FALSE, FALSE, 403, "Forbidden", "text")
    ELSE IF env.fail = 1 THEN
      o(uct, TRUE, FALSE, 500, "Internal server error", "text")
    ELSE IF company_id \notin DOMAIN ct THEN
      o(uct, TRUE, FALSE, 404, "Not Found", "text")
    ELSE IF user_id \notin Users \/ env.cognito # "ok" THEN
      o(uct, TRUE, FALSE, 404, "Not Found", "text")
    ELSE IF env.fail = 2 THEN
      o(uct, TRUE, TRUE, 500, "Internal server error", "text")
    ELSE o(Put(uct, << user_id, company_id >>, row), TRUE, TRUE, 200, Absent,
           "text")

\* handle_delete_request without its admin test.
handle_delete_request_open(event, c, adm, ct, uct, env) ==
  LET q == event.queryStringParameters
      user_id == Get(q, "userId")
      company_id == Get(q, "companyId")
      o(m2, w, st, err, msg) ==
        MemberReply(event, c, Get(c.ret, "sub"), adm, user_id, company_id, m2,
                    FALSE, w, st, 0, err, msg)
  IN
    IF user_id = Absent \/ company_id = Absent THEN
      o(uct, FALSE, 400, "Bad Request", "text")
    ELSE IF env.fail = 1 THEN o(uct, TRUE, 500, "Internal server error", "text")
    ELSE o(Delete(uct, << user_id, company_id >>), TRUE, 200, Absent, "text")

\* handle_delete_request: table call 1 is the delete_item.
handle_delete_request(event, c, adm, ct, uct, env) ==
  LET q == event.queryStringParameters
      user_id == Get(q, "userId")
      company_id == Get(q, "companyId")
      o(m2, w, st, err, msg) ==
        MemberReply(event, c, Get(c.ret, "sub"), adm, user_id, company_id, m2,
                    FALSE, w, st, 0, err, msg)
  IN
    IF user_id = Absent \/ company_id = Absent THEN
      o(uct, FALSE, 400, "Bad Request", "text")
    ELSE IF ~Bool(adm) THEN o(uct, FALSE, 403, "Forbidden", "text")
    ELSE IF env.fail = 1 THEN o(uct, TRUE, 500, "Internal server error", "text")
    ELSE o(Delete(uct, << user_id, company_id >>), TRUE, 200, Absent, "text")

\* functions/manage-user-company/app.py lambda_handler
manage_user_company(event, ct, uct, cid, t, env) ==
  LET c == require_auth(event, cid, env.fetch, t)
      is_admin == is_admin_user(c.ret)
      none == [ ok |-> FALSE, ret |-> None, step |-> "none", calls |-> 0 ]
  IN
    IF event.httpMethod = "OPTIONS" THEN
      MemberReply(event, none, Absent, "None", Absent, Absent, uct, FALSE,
                  FALSE, 200, 0, Absent, Absent)
    ELSE IF ~c.ok THEN
      MemberReply(event, c, Absent, "None", Absent, Absent, uct, FALSE, FALSE,
                  401, 0, "Unauthorized", "text")
    ELSE IF event.httpMethod = "GET" THEN
      handle_get_request(event, c, is_admin, ct, uct, env)
    ELSE IF event.httpMethod = "POST" THEN
      handle_post_request(event, c, is_admin, ct, uct, env)
    ELSE IF event.httpMethod = "DELETE" THEN
      handle_delete_request(event, c, is_admin, ct, uct, env)
    ELSE MemberReply(event, c, Get(c.ret, "sub"), is_admin, Absent, Absent,
                     uct, FALSE, FALSE, 400, 0, "Invalid HTTP method", "text")

\* ---------------------------------------------------------------- actions
NoCall == [ fn |-> "none", token |-> CHOOSE x \in Tokens : TRUE, at |-> 0,
            ok |-> FALSE, ret |-> None, step |-> "none" ]

\* The slots of concurrent invocations, and a slot nothing runs in.  op:
\* the function running; pc: the table call it is about to issue; user: the
\* caller; key: the deviceId or companyId; target and role: the membership
\* to write; assoc: the membership rows still to delete; status: the
\* statusCode returned.
Slots == { 1, 2 }
Idle == [ op |-> "idle", pc |-> "idle", user |-> Absent, key |-> Absent,
          target |-> Absent, role |-> Absent, assoc |-> << >>, status |-> 0 ]

\* State of a freshly started process: nothing fetched, nothing verified.
Fresh ==
  /\ running = [ i \in Slots |-> Idle ]
  /\ now = 1
  /\ client \in ClientIds
  /\ keys = None
  /\ claims = None
  /\ call = NoCall
  /\ net = [ fetches |-> 0, fetched |-> FALSE ]
  /\ obs = NoObs

\* A freshly started process, with empty tables.
Init ==
  /\ Fresh
  /\ device_table = << >>
  /\ things = {}
  /\ company_table = << >>
  /\ user_company_table = << >>
  /\ deployed = {}
  /\ telemetry = {}

\* The fetch counters after a call that did (f) or did not fetch; ok: the
\* fetch succeeded.
Fetched(n, f, ok) ==
  IF ~f THEN n
  ELSE [ fetches |-> IF n.fetches < MaxFetches THEN n.fetches + 1 ELSE n.fetches,
         fetched |-> n.fetched \/ ok ]

\* One call of verify_token in the process that imported common/auth.py.
Verify(token, fetch) ==
  LET r == verify_token(token, claims, keys, fetch, now) IN
    /\ claims' = r.claims
    /\ keys' = r.keys
    /\ call' = [ fn |-> "verify_token", token |-> token, at |-> now,
                 ok |-> Truthy(r.ret), ret |-> r.ret, step |-> r.step ]
    /\ net' = Fetched(net, r.fetched, fetch = "ok")
    /\ UNCHANGED << now, client, telemetry, obs, registry, directory,
                    deployed, running >>
VerifyToken ==
  \E token \in Tokens, fetch \in FetchOutcomes : Verify(token, fetch)

\* One call of verify_token with one of the tokens that travel in headers,
\* or with a string that is no token.
VerifySentToken ==
  \E token \in { NamedTokens[n] : n \in DOMAIN NamedTokens }
                 \cup { TokenOf("x") },
     fetch \in FetchOutcomes : Verify(token, fetch)

\* One call of validate_token (it keeps no state between calls).
ValidateToken ==
  \E token \in Tokens, fetch \in FetchOutcomes :
    LET r == validate_token(token, client, fetch, now) IN
      /\ call' = [ fn |-> "validate_token", token |-> token, at |-> now,
                   ok |-> r.ok, ret |-> r.ret, step |-> r.step ]
      /\ net' = Fetched(net, r.fetched, fetch = "ok")
      /\ UNCHANGED << now, client, keys, claims, telemetry, obs, registry, directory,
                 deployed, running >>

\* The clock advances.
Tick ==
  /\ now < MaxTime
  /\ now' = now + 1
  /\ UNCHANGED << client, keys, claims, call, net, telemetry, obs, registry, directory,
                 deployed, running >>

\* One request to the ingest-telemetry function.
IngestTelemetry ==
  \E m \in {"OPTIONS", "POST"},
     h \in { None, [ Authorization |-> << "Bearer", "good1" >> ] },
     b \in IngestBodies, env \in Envs \ {"jwks_error"} :
    LET r == ingest_telemetry([ httpMethod |-> m, headers |-> h, body |-> b ],
                              telemetry, now, env # "db_error")
    IN /\ telemetry' = r.tbl
       /\ obs' = r.obs
       /\ UNCHANGED << now, client, keys, claims, call, net, registry, directory,
                 deployed, running >>

\* One request to the get-telemetry function.
GetTelemetry ==
  \E event \in TelemetryEvents, env \in Envs :
    /\ obs' = get_telemetry(event, telemetry, client, FetchOf(env), now,
                            env # "db_error")
    /\ UNCHANGED << now, client, keys, claims, call, net, telemetry, registry, directory,
                 deployed, running >>

\* The deviceId and companyId the request names where its method reads them.
Named(event, key) ==
  IF event.httpMethod \in { "POST", "PUT" } THEN Get(event.body.json, key)
  ELSE Get(event.queryStringParameters, key)

\* The observation o of a manage-device request, with the deviceId and
\* companyId it named, whether the device had a row before it, and whether
\* it changed the table or the registry.
AuditDevice(o, event, tbl, th) ==
  [ handler |-> o.handler, method |-> o.method,
    hasAuthHeader |-> o.hasAuthHeader, bearer |-> o.bearer,
    verified |-> o.verified,
    authOk |-> o.authOk, user |-> o.user, reads |-> o.reads,
    writes |-> o.writes, status |-> o.status, count |-> o.count,
    logsAuth |-> o.logsAuth,
    step |-> o.step, headers |-> o.headers, error |-> o.error,
    message |-> o.message,
    device |-> Named(event, "deviceId"), company |-> Named(event, "companyId"),
    existed |-> Named(event, "deviceId") \in DOMAIN device_table,
    changed |-> (tbl # device_table \/ th # things) ]

\* One request to the manage-device function.
ManageDevice ==
  \E event \in DeviceEvents, env \in DeviceEnvs :
    \E r \in { manage_device(event, device_table, things, env) } :
      /\ device_table' = r.tbl
      /\ things' = r.things
      /\ obs' = AuditDevice(r.obs, event, r.tbl, r.things)
      /\ UNCHANGED << now, client, keys, claims, call, net, telemetry,
                      directory, deployed, running >>

\* One request to the list-devices function.
ListDevices ==
  \E m \in {"OPTIONS", "GET"}, h \in SomeHeaders,
     q \in { None, [ companyId |-> "c1" ], [ companyId |-> "c2" ] },
     env \in Envs :
    /\ obs' = list_devices([ httpMethod |-> m, headers |-> h,
                             queryStringParameters |-> q ],
                           device_table, client, FetchOf(env), now,
                           env # "db_error")
    /\ UNCHANGED << now, client, keys, claims, call, net, telemetry,
                    registry, directory, deployed, running >>

\* The ids uuid4 can still generate: those no row mentions.
FreshIds ==
  { c \in Companies : /\ c \notin DOMAIN company_table
                       /\ \A k \in DOMAIN user_company_table : k[2] # c }

\* The observation o of a company request, with what the tables held
\* before it and whether it changed them.  company: the companyId asked
\* for; role: the role the user had on it; fault: the table call that
\* raised.
Audit(o, company, fault, ct, uct) ==
  [ handler |-> o.handler, method |-> o.method,
    hasAuthHeader |-> o.hasAuthHeader, bearer |-> o.bearer,
    verified |-> o.verified,
    authOk |-> o.authOk, user |-> o.user, reads |-> o.reads,
    writes |-> o.writes, status |-> o.status, count |-> o.count,
    logsAuth |-> o.logsAuth,
    step |-> o.step, headers |-> o.headers, error |-> o.error,
    message |-> o.message,
    company |-> company, fault |-> fault,
    role |-> RoleOf(user_company_table, o.user, company),
    changed |-> (ct # company_table \/ uct # user_company_table) ]

\* One request to the manage-company function.
ManageCompany ==
  \E req \in CompanyRequests :
    \E id \in IF req.event.httpMethod = "POST" THEN FreshIds ELSE { Absent } :
      \E r \in { manage_company(req.event, company_table, user_company_table,
                                 client, now, req.env, id) } :
        /\ company_table' = r.ct
        /\ user_company_table' = r.uct
        /\ obs' = Audit(r.obs, r.company, r.fault, r.ct, r.uct)
    /\ UNCHANGED << now, client, keys, claims, call, net, telemetry,
                    registry, deployed, running >>

\* The observation o of a manage-user-company request, with the value
\* is_admin_user returned, the groups claim of the token it was given, and
\* the request's userId and companyId.
AuditMember(o, adm, groups, target, company, uct) ==
  [ handler |-> o.handler, method |-> o.method,
    hasAuthHeader |-> o.hasAuthHeader, bearer |-> o.bearer,
    verified |-> o.verified,
    authOk |-> o.authOk, user |-> o.user, reads |-> o.reads,
    writes |-> o.writes, status |-> o.status, count |-> o.count,
    logsAuth |-> o.logsAuth,
    step |-> o.step, headers |-> o.headers, error |-> o.error,
    message |-> o.message,
    isAdmin |-> adm, groups |-> groups, target |-> target,
    company |-> company, changed |-> uct # user_company_table ]

\* The groups claim of the token in the request: whether it is there, and
\* the list.
GroupsOf(event) ==
  LET x == get_token_from_header(event)
      p == IF x.ok THEN TokenOf(x.token).payload ELSE None
  IN IF "cognito:groups" \in DOMAIN p
     THEN [ present |-> TRUE, list |-> p["cognito:groups"] ]
     ELSE [ present |-> FALSE, list |-> << >> ]

\* One request to the manage-user-company function.
ManageUserCompany ==
  \E req \in MemberRequests :
    \E r \in { manage_user_company(req.event, company_table,
                                    user_company_table, client, now, req.env) } :
      /\ user_company_table' = r.uct
      /\ obs' = AuditMember(r.obs, r.isAdmin, GroupsOf(req.event), r.target,
                            r.company, r.uct)
      /\ UNCHANGED << now, client, keys, claims, call, net, telemetry,
                      registry, company_table, deployed, running >>

\* One request checked by require_auth of functions/common/auth.py.
CommonRequireAuth ==
  \E m \in { "GET", "OPTIONS" }, h \in CompanyHeaders, fetch \in FetchOutcomes :
    \E r \in { common_require_auth([ httpMethod |-> m, headers |-> h ],
                                    claims, keys, fetch, now) } :
      /\ claims' = r.claims
      /\ keys' = r.keys
      /\ net' = Fetched(net, r.fetched, fetch = "ok")
      /\ obs' = r.obs
      /\ UNCHANGED << now, client, call, telemetry, registry, directory,
                      deployed, running >>

\* ------------------------------------- invocations running concurrently
\* What an invocation in a slot leaves alone besides the tables.
process == << now, client, keys, claims, call, net, telemetry, obs, deployed >>

\* The slot i holding rec; the invocation of slot i returning statusCode st.
Run(i, rec) == running' = [ running EXCEPT ![i] = rec ]
Return(i, st) == Run(i, [ running[i] EXCEPT !.pc = "done", !.status = st ])
At(i, op, pc) == running[i].op = op /\ running[i].pc = pc

\* delete_company, one table call at a time.  The request of an
\* authenticated user with a companyId arrives.
BeginDelete(i) ==
  /\ running[i].op = "idle"
  /\ \E u \in Users, c \in Companies :
       Run(i, [ Idle EXCEPT !.op = "delete_company", !.pc = "check",
                            !.user = u, !.key = c ])
  /\ UNCHANGED << process, registry, directory >>

\* get_item of the requester's membership row, and the role test.
DeleteCheck(i) ==
  /\ At(i, "delete_company", "check")
  /\ \E raised \in BOOLEAN :
       IF raised THEN Return(i, 500)
       ELSE IF RoleOf(user_company_table, running[i].user, running[i].key)
               # "admin"
       THEN Return(i, 403)
       ELSE Run(i, [ running[i] EXCEPT !.pc = "query" ])
  /\ UNCHANGED << process, registry, directory >>

\* query of CompanyIndex: the membership rows of the company at this moment.
DeleteQuery(i) ==
  /\ At(i, "delete_company", "query")
  /\ \E raised \in BOOLEAN, first \in Users :
       IF raised THEN Return(i, 500)
       ELSE Run(i, [ running[i] EXCEPT
                       !.pc = "rows",
                       !.assoc = Associations(user_company_table,
                                              running[i].key, first) ])
  /\ UNCHANGED << process, registry, directory >>

\* delete_item of the next membership row of the list.
DeleteRow(i) ==
  /\ At(i, "delete_company", "rows")
  /\ running[i].assoc # << >>
  /\ \E raised \in BOOLEAN :
       IF raised THEN Return(i, 500) /\ UNCHANGED user_company_table
       ELSE /\ user_company_table' =
                 Delete(user_company_table,
                        << Head(running[i].assoc), running[i].key >>)
            /\ Run(i, [ running[i] EXCEPT !.assoc = Tail(running[i].assoc) ])
  /\ UNCHANGED << process, registry, company_table >>

\* delete_item of the company row, after the loop, and the 200 response.
DeleteCompanyRow(i) ==
  /\ At(i, "delete_company", "rows")
  /\ running[i].assoc = << >>
  /\ \E raised \in BOOLEAN :
       IF raised THEN Return(i, 500) /\ UNCHANGED company_table
       ELSE /\ company_table' = Delete(company_table, running[i].key)
            /\ Return(i, 200)
  /\ UNCHANGED << process, registry, user_company_table >>

\* handle_post_request, one table call at a time.  The request of a caller
\* of the 'admin' group with userId, companyId and role arrives.
BeginAssign(i) ==
  /\ running[i].op = "idle"
  /\ \E u \in Users, t \in Users, c \in Companies, role \in { "user", "admin" } :
       Run(i, [ Idle EXCEPT !.op = "assign", !.pc = "find", !.user = u,
                            !.key = c, !.target = t, !.role = role ])
  /\ UNCHANGED << process, registry, directory >>

\* get_item of the company row, then cognito.admin_get_user.
AssignFind(i) ==
  /\ At(i, "assign", "find")
  /\ \E raised \in BOOLEAN, cognito \in { "ok", "error" } :
       IF raised THEN Return(i, 500)
       ELSE IF running[i].key \notin DOMAIN company_table THEN Return(i, 404)
       ELSE IF cognito # "ok" THEN Return(i, 404)
       ELSE Run(i, [ running[i] EXCEPT !.pc = "put" ])
  /\ UNCHANGED << process, registry, directory >>

\* put_item of the membership row, and the 200 response.
AssignPut(i) ==
  /\ At(i, "assign", "put")
  /\ \E raised \in BOOLEAN :
       IF raised THEN Return(i, 500) /\ UNCHANGED user_company_table
       ELSE /\ user_company_table' =
                 Put(user_company_table,
                     << running[i].target, running[i].key >>,
                     [ userId |-> running[i].target,
                       companyId |-> running[i].key,
                       role |-> running[i].role ])
            /\ Return(i, 200)
  /\ UNCHANGED << process, registry, company_table >>

\* register_device, one call at a time.  The request of an identified user
\* with a deviceId and a companyId arrives.
BeginRegister(i) ==
  /\ running[i].op = "idle"
  /\ \E u \in Users, d \in Devices :
       Run(i, [ Idle EXCEPT !.op = "register_device", !.pc = "lookup",
                            !.user = u, !.key = d, !.target = "c1" ])
  /\ UNCHANGED << process, registry, directory >>

\* get_item of the device row, and the 409 response when it has an Item.
RegisterLookup(i) ==
  /\ At(i, "register_device", "lookup")
  /\ \E raised \in BOOLEAN :
       IF raised THEN Return(i, 500)
       ELSE IF running[i].key \in DOMAIN device_table THEN Return(i, 409)
       ELSE Run(i, [ running[i] EXCEPT !.pc = "put" ])
  /\ UNCHANGED << process, registry, directory >>

\* put_item of the device row.
RegisterPut(i) ==
  /\ At(i, "register_device", "put")
  /\ \E raised \in BOOLEAN :
       IF raised THEN Return(i, 500) /\ UNCHANGED device_table
       ELSE /\ device_table' =
                 Put(device_table, running[i].key,
                     [ deviceId |-> running[i].key,
                       companyId |-> running[i].target, name |-> "",
                       createdBy |-> running[i].user ])
            /\ Run(i, [ running[i] EXCEPT !.pc = "thing" ])
  /\ UNCHANGED << process, things, directory >>

\* iot_client.create_thing, and the response: 201 also after a ClientError,
\* 500 after another exception.
RegisterThing(i) ==
  /\ At(i, "register_device", "thing")
  /\ \E iot \in { "ok", "iot_client_error", "iot_error" } :
       /\ things' = IF iot = "ok" THEN things \cup { running[i].key } ELSE things
       /\ Return(i, IF iot = "iot_error" THEN 500 ELSE 201)
  /\ UNCHANGED << process, device_table, directory >>

\* The response of slot i is delivered; the slot is free again.
Finish(i) ==
  /\ running[i].pc = "done"
  /\ Run(i, Idle)
  /\ UNCHANGED << process, registry, directory >>

\* A process that imported functions/common/auth.py: a sequence of
\* verify_token calls (the client id is not read by this module).
InitVerify == Init /\ client = "c0"
NextVerify == VerifyToken \/ Tick
SpecVerify == InitVerify /\ [][NextVerify]_vars

\* The same process, verifying the tokens requests carry.
NextSent == VerifySentToken \/ Tick
SpecSent == InitVerify /\ [][NextSent]_vars

\* A process that imported layers/python/auth.py: a sequence of
\* validate_token calls.
NextValidate == ValidateToken \/ Tick
SpecValidate == Init /\ [][NextValidate]_vars

\* The two telemetry functions behind the API, sharing the telemetry table.
NextTelemetry == IngestTelemetry \/ GetTelemetry \/ Tick
InitTelemetry == Init /\ client = "c0"
SpecTelemetry == InitTelemetry /\ [][NextTelemetry]_vars

\* The functions of the API, one deployment at a time: the functions that
\* share a table together, manage-company and manage-user-company each on
\* its own over a filled directory, and a function that authenticates
\* with functions/common/auth.py.
Deployments ==
  { { "ingest-telemetry", "get-telemetry" }, { "manage-device", "list-devices" },
    { "manage-company" }, { "manage-user-company" }, { "common-auth" } }

\* The directory after u1 created company c1 and u2 was assigned to it.
SeededCompanies ==
  [ c \in { "c1" } |-> [ companyId |-> "c1", name |-> "n", createdBy |-> "u1" ] ]
SeededMembers ==
  [ k \in { << "u1", "c1" >>, << "u2", "c1" >> } |->
      [ userId |-> k[1], companyId |-> "c1",
        role |-> IF k[1] = "u1" THEN "admin" ELSE "user" ] ]

InitApi ==
  /\ Fresh
  /\ client = "c0"
  /\ deployed \in Deployments
  /\ device_table = << >>
  /\ things = {}
  /\ telemetry = {}
  /\ \/ /\ company_table = << >>
        /\ user_company_table = << >>
     \/ /\ deployed \in { { "manage-company" }, { "manage-user-company" } }
        /\ company_table = SeededCompanies
        /\ user_company_table = SeededMembers
NextApi ==
  \/ "ingest-telemetry" \in deployed /\ IngestTelemetry
  \/ "get-telemetry" \in deployed /\ GetTelemetry
  \/ "list-devices" \in deployed /\ ListDevices
  \/ "manage-device" \in deployed /\ ManageDevice
  \/ "manage-company" \in deployed /\ ManageCompany
  \/ "manage-user-company" \in deployed /\ ManageUserCompany
  \/ "common-auth" \in deployed /\ CommonRequireAuth
  \/ Tick
SpecApi == InitApi /\ [][NextApi]_vars

\* The company functions, sharing the company and membership tables.
NextCompany == ManageCompany \/ ManageUserCompany \/ Tick
SpecCompany == InitTelemetry /\ [][NextCompany]_vars

\* Company deletes and membership assignments running at the same time,
\* over a directory that holds company c1.
InitDeleteRace ==
  /\ Fresh
  /\ client = "c0"
  /\ deployed = { "manage-company", "manage-user-company" }
  /\ device_table = << >>
  /\ things = {}
  /\ telemetry = {}
  /\ company_table = SeededCompanies
  /\ user_company_table = SeededMembers
NextDeleteRace ==
  \E i \in Slots :
    \/ BeginDelete(i) \/ DeleteCheck(i) \/ DeleteQuery(i) \/ DeleteRow(i)
    \/ DeleteCompanyRow(i)
    \/ BeginAssign(i) \/ AssignFind(i) \/ AssignPut(i)
    \/ Finish(i)
SpecDeleteRace == InitDeleteRace /\ [][NextDeleteRace]_vars

\* Device registrations running at the same time, over an empty table.
NextRegisterRace ==
  \E i \in Slots :
    \/ BeginRegister(i) \/ RegisterLookup(i) \/ RegisterPut(i)
    \/ RegisterThing(i) \/ Finish(i)
SpecRegisterRace == InitTelemetry /\ [][NextRegisterRace]_vars

\* The two device functions, sharing the device table.
NextDevices == ManageDevice \/ ListDevices \/ Tick
SpecDevices == InitTelemetry /\ [][NextDevices]_vars

\* ------------------------------------------------------------------ claims
\* Vocabulary of the statements below, all about the last call.
Called == call.fn # "none"
Pay == call.token.payload
\* the key set was available to the call
KeysSeen == call.step # "keys"
\* the value the audience check selects: client_id if present, else aud
Selected(p) == IF "client_id" \in DOMAIN p THEN p.client_id ELSE Get(p, "aud")
\* the token's signature validates against the key its kid resolves to
SignedByResolvedKey(token) ==
  token.segs = 3 /\ KeyFound(token.kid, JWKS) /\ token.sig = token.kid
\* well-formed, signed by a key of the set, iss and aud/client_id matching
WellFormedAndMatching(token, cid) ==
  /\ SignedByResolvedKey(token) /\ token.pjson
  /\ Get(token.payload, "iss") = Issuer
  /\ Selected(token.payload) = cid
  /\ "exp" \in DOMAIN token.payload

\* C1: the result of verify_token depends only on the token, the key set,
\* the configuration and the time: it is what a first call in a fresh
\* process returns for that token at that time, so an accepted call returns
\* the claims of its own token.
C1_ResultDependsOnlyOnToken ==
  (call.fn = "verify_token" /\ KeysSeen) =>
     /\ call.ret = verify_token(call.token, None, JWKS, "ok", call.at).ret
     /\ (call.ok => call.ret = Pay)

\* C2: a token whose exp is earlier than the time of the call is rejected by
\* both verifiers after any sequence of earlier calls, and an otherwise
\* valid token with exp equal to that time is accepted.
C2_ExpiredRejected ==
  Called =>
     /\ (call.token.pjson /\ "exp" \in DOMAIN Pay /\ Pay.exp < call.at)
           => ~call.ok
     /\ (WellFormedAndMatching(call.token, client) /\ Pay.exp = call.at
         /\ Get(Pay, "token_use") \in {"access", "id"} /\ KeysSeen)
           => call.ok

\* C3: a token whose signature does not validate against the key resolved
\* by its kid is rejected by both verifiers, whatever its payload and
\* whatever calls came before, and nothing is returned for it.
C3_BadSignatureRejected ==
  (Called /\ call.token.segs = 3 /\ KeyFound(call.token.kid, JWKS)
          /\ call.token.sig # call.token.kid)
     => (~call.ok /\ call.ret = None)

\* C4: a well-formed three-segment token signed by a key of the key set,
\* with exp not in the past and iss and aud (or client_id) matching the
\* configuration, is accepted and the claims returned equal its decoded
\* payload, whatever other claims the payload carries.
C4_ValidTokenAccepted ==
  (Called /\ KeysSeen /\ WellFormedAndMatching(call.token, client)
          /\ Pay.exp >= call.at)
     => (call.ok /\ call.ret = Pay)

\* C5: a token whose kid matches no entry of the fetched key set is
\* rejected at key resolution, before any signature verification.
C5_UnknownKidRejected ==
  (Called /\ KeysSeen /\ call.token.segs = 3 /\ call.token.kid # Absent
          /\ ~KeyFound(call.token.kid, JWKS))
     => (~call.ok /\ call.step = "kid")

\* C6: every handler, on every non-OPTIONS request, touches storage and
\* acts on an identity only after the full token verification has completed
\* successfully exactly once for that request; none writes with no
\* verification at all.
C6_StorageOnlyAfterVerification ==
  (obs.handler # "none" /\ obs.method # "OPTIONS"
     /\ (obs.reads \/ obs.writes \/ obs.user # Absent))
  => (obs.verified = 1 /\ obs.authOk)

\* C7: no token is accepted unless its iss claim equals the expected
\* issuer; a different or missing iss is rejected by every verifier.
C7_IssuerChecked ==
  (Called /\ call.ok) => (call.token.pjson /\ Get(Pay, "iss") = Issuer)

\* C8: no token is accepted unless the configured client id equals
\* client_id when present, else aud; a differing or absent value is
\* rejected, also when the configured client id is unset.
C8_AudienceChecked ==
  (Called /\ call.ok) =>
     (call.token.pjson /\ Selected(Pay) # Absent /\ Selected(Pay) = client)

\* C9: no token is accepted unless its token_use claim is access or id.
C9_TokenUseChecked ==
  (Called /\ call.ok) =>
     (call.token.pjson /\ Get(Pay, "token_use") \in {"access", "id"})

\* The step at which the ordered procedure stops for a token, the key set
\* being available: structure, header kid, key resolution, signature,
\* claims decode, expiration, token-use, audience, issuer.
OrderedStep(token, cid, t) ==
  IF token.segs # 3 THEN "structure"
  ELSE IF token.kid = Absent THEN "header"
  ELSE IF ~KeyFound(token.kid, JWKS) THEN "kid"
  ELSE IF token.sig # token.kid THEN "signature"
  ELSE IF ~token.pjson THEN "decode"
  ELSE IF "exp" \notin DOMAIN token.payload \/ t > token.payload.exp THEN "exp"
  ELSE IF Get(token.payload, "token_use") \notin {"access", "id"} THEN "token_use"
  ELSE IF Selected(token.payload) = Absent \/ Selected(token.payload) # cid
       THEN "aud"
  ELSE IF Get(token.payload, "iss") # Issuer THEN "iss"
  ELSE "accept"

\* C10: the verifier runs its checks in the fixed order and stops at the
\* first failing one, so the step it reports for a token is the earliest
\* failing step of that order (expired before audience mismatch).
C10_ChecksInOrder ==
  (Called /\ KeysSeen) =>
     call.step = OrderedStep(call.token, client, call.at)

\* C11: over any sequence of verifications in one process at most one JWKS
\* fetch is issued, and once a fetch has succeeded no later key lookup goes
\* to the network.
C11_AtMostOneFetch ==
  [][ net'.fetches <= 1 /\ (net.fetched => net' = net) ]_vars

\* C12: a request whose JWKS fetch fails is answered 401: no token is
\* accepted, no user is taken from it, and no table is read or written.
C12_FetchFailureIs401 ==
  obs.step = "keys" =>
    /\ obs.status = 401
    /\ ~obs.authOk
    /\ obs.user = Absent
    /\ ~obs.reads /\ ~obs.writes
C12_FetchFailed ==
  obs.step = "keys" /\ obs.bearer /\ obs.verified = 1 /\ obs.status = 401

\* The request ended as an authentication failure: it was answered 401, or
\* its header or its token was turned down.
AuthFailed ==
  \/ obs.status = 401
  \/ obs.step \in { "missing_header", "malformed_header" }
  \/ obs.verified > 0 /\ ~obs.authOk

\* C13: every authentication failure, in every handler, is answered with
\* status 401 and a body whose error is "Unauthorized" and that carries a
\* message.
C13_Uniform401 ==
  AuthFailed =>
    /\ obs.status = 401
    /\ obs.error = "Unauthorized"
    /\ obs.message # Absent

\* The statusCodes of the API.
StatusCodes == { 200, 201, 400, 401, 403, 404, 409, 500 }

\* C14: every response of every handler, the exception paths included,
\* carries Access-Control-Allow-Origin: * and a statusCode of StatusCodes.
C14_CorsAndStatus ==
  obs.status # 0 =>
    /\ obs.status \in StatusCodes
    /\ Get(obs.headers, "Access-Control-Allow-Origin") = "*"
C14_ErrorResponse ==
  /\ obs.status = 500
  /\ obs.handler = "manage-company"
  /\ Get(obs.headers, "Access-Control-Allow-Origin") = "*"

\* The request went through the token extraction of one of the two auth
\* modules.
Extracting ==
  /\ obs.handler \in { "get-telemetry", "list-devices", "manage-user-company",
                        "common-auth" }
  /\ obs.handler # "common-auth" => obs.method # "OPTIONS"

\* C15: token extraction reports a missing header only when the request has
\* no Authorization header under any letter case of the name, and a Bearer
\* value under any spelling of the name has its token handed to the verifier.
C15_HeaderNameAnyCase ==
  Extracting =>
    /\ obs.step = "missing_header" <=> ~obs.hasAuthHeader
    /\ obs.bearer => obs.verified = 1

\* The request reached the authentication of a handler that authenticates
\* with a token.
Authenticating ==
  /\ obs.handler \in { "get-telemetry", "list-devices", "manage-company",
                        "manage-user-company", "common-auth" }
  /\ obs.handler # "common-auth" => obs.method # "OPTIONS"

\* C16: a header value that is not 'bearer' (in any letter case) followed by
\* exactly one more part is turned down with 401 before any verification,
\* and only a value of that form has its token accepted.
C16_OnlyBearerValues ==
  Authenticating =>
    /\ (obs.hasAuthHeader /\ ~obs.bearer) =>
          (obs.verified = 0 /\ ~obs.authOk /\ obs.status = 401)
    /\ obs.authOk => obs.bearer

\* The six functions behind the API.
Handlers ==
  { "ingest-telemetry", "get-telemetry", "list-devices", "manage-device",
    "manage-company", "manage-user-company" }

\* C17: an OPTIONS request without Authorization header is answered 200
\* with the CORS headers by every handler, with no token extraction, no
\* verification and no table call.
C17_PreflightSkipsAuth ==
  (obs.handler \in Handlers /\ obs.method = "OPTIONS" /\ ~obs.hasAuthHeader) =>
    /\ obs.status = 200
    /\ obs.step = "none" /\ obs.verified = 0 /\ ~obs.authOk
    /\ ~obs.reads /\ ~obs.writes
    /\ Get(obs.headers, "Access-Control-Allow-Origin") = "*"
C17_Preflight ==
  /\ obs.handler = "list-devices" /\ obs.method = "OPTIONS"
  /\ ~obs.hasAuthHeader /\ obs.status = 200

\* The admin check ran on the claims of a verified token.
AdminChecked == obs.handler = "manage-user-company" /\ obs.authOk
InAdminGroup ==
  \E i \in DOMAIN obs.groups.list : obs.groups.list[i] = "admin"

\* C18: the admin check returns the boolean True exactly when "admin" is an
\* element of the claims' group list, and the boolean False when the list
\* is absent, empty or holds only other names.
C18_AdminCheckBoolean ==
  AdminChecked =>
    /\ obs.isAdmin \in { "True", "False" }
    /\ obs.isAdmin = "True" <=> InAdminGroup

\* C18 as amended: the value of the admin check is truthy exactly when
\* "admin" is an element of the group list; it is True or False when the
\* list has elements, None when the claim is absent and the empty list
\* when the list is empty.
C18_AdminCheckTruthy ==
  AdminChecked =>
    /\ Bool(obs.isAdmin) <=> InAdminGroup
    /\ obs.isAdmin = "None" <=> ~obs.groups.present
    /\ obs.isAdmin = "[]" <=> (obs.groups.present /\ obs.groups.list = << >>)
    /\ obs.isAdmin \in { "True", "False", "None", "[]" }
C18_OtherGroupOnly ==
  /\ AdminChecked /\ obs.groups.present /\ obs.groups.list # << >>
  /\ ~InAdminGroup /\ obs.isAdmin = "False"

\* An authenticated update or delete that names a company.
CompanyChange ==
  /\ obs.handler = "manage-company" /\ obs.authOk
  /\ obs.method \in { "PUT", "DELETE" }
  /\ obs.company # Absent

RowsLeft ==
  { k \in DOMAIN user_company_table : k[2] = obs.company }

\* C20: after a company delete in which the removal of one membership row
\* failed, the other membership rows and the company row are gone; and the
\* company row goes last: when its removal fails no membership row is left.
C20_BestEffortDelete ==
  (obs.handler = "manage-company" /\ obs.method = "DELETE") =>
    /\ obs.fault = "membership" =>
          /\ Cardinality(RowsLeft) <= 1
          /\ obs.company \notin DOMAIN company_table
    /\ obs.fault = "company" => RowsLeft = {}

\* C21: no log record of any handler or auth module holds the value of the
\* request's Authorization header.
C21_NoTokenInLogs ==
  ~obs.logsAuth

\* A request to manage-user-company to assign or remove a membership.
MemberChange ==
  obs.handler = "manage-user-company" /\ obs.method \in { "POST", "DELETE" }
\* The caller's verified claims put them in the 'admin' group.
AdminCaller == obs.authOk /\ InAdminGroup

\* C22: a POST or DELETE of manage-user-company from a caller who is not a
\* verified member of the 'admin' group issues no write and leaves the
\* membership table as it was, and is answered 403 when it is authenticated
\* and names a userId and a companyId.
C22_AdminOnlyMembership ==
  (MemberChange /\ ~AdminCaller) =>
    /\ ~obs.writes /\ ~obs.changed
    /\ (obs.authOk /\ obs.target # Absent /\ obs.company # Absent) =>
          obs.status = 403
C22_NonAdminRefused ==
  /\ MemberChange /\ obs.authOk /\ ~InAdminGroup /\ obs.groups.present
  /\ obs.method = "DELETE" /\ obs.target # Absent /\ obs.company # Absent
  /\ obs.status = 403

\* A GET of manage-user-company from a verified caller outside the 'admin'
\* group.
MemberQuery ==
  /\ obs.handler = "manage-user-company" /\ obs.method = "GET"
  /\ obs.authOk /\ ~InAdminGroup
\* The caller has a membership row for the company asked for.
CallerBelongs == << obs.user, obs.company >> \in DOMAIN user_company_table
\* The number of companies of the caller.
OwnCompanies ==
  Cardinality(CompaniesOf(company_table, user_company_table, obs.user))

Registration ==
  /\ obs.handler = "manage-device" /\ obs.method = "POST" /\ obs.authOk
  /\ obs.device # Absent /\ obs.company # Absent

Creation ==
  obs.handler = "manage-company" /\ obs.method = "POST" /\ obs.authOk

\* C25: after a create answered 201 the company table holds the new row
\* with createdBy the caller and the membership table the caller's row for
\* it with role 'admin'; after a create answered otherwise neither table
\* holds a row of the new id.
C25_CreateAllOrNothing ==
  Creation =>
    /\ obs.status = 201 =>
          /\ obs.company \in DOMAIN company_table
          /\ company_table[obs.company].createdBy = obs.user
          /\ RoleOf(user_company_table, obs.user, obs.company) = "admin"
    /\ obs.status # 201 =>
          /\ obs.company \notin DOMAIN company_table
          /\ RowsLeft = {}

\* C26: a verify_token call that rejects its token leaves the module-level
\* claims as they were, so a token rejected at the expiration or the issuer
\* check cannot be returned by a later call.
C26_RejectionCachesNothing ==
  [][ (call' # call /\ call'.fn = "verify_token" /\ ~call'.ok) =>
        claims' = claims ]_vars

\* The last verify_token call failed at the key fetch.
FetchFailed == call.fn = "verify_token" /\ call.step = "keys"

\* C27: a verify_token call whose key fetch fails is rejected after that one
\* fetch and leaves the key cache empty; the next verification fetches
\* again, and when that fetch succeeds a valid token is accepted with its
\* own claims.
C27_FailedFetchNotCached ==
  [][ /\ FetchFailed' =>
           /\ ~call'.ok /\ ~Truthy(keys')
           /\ net'.fetches <= net.fetches + 1
      /\ (FetchFailed /\ call' # call /\ HeaderKidOk(call'.token)) =>
           (net'.fetches > net.fetches \/ net.fetches = MaxFetches)
      /\ (FetchFailed /\ Truthy(keys')
             /\ WellFormedAndMatching(call'.token, client)
             /\ call'.token.payload.exp >= call'.at) =>
           (call'.ok /\ call'.ret = call'.token.payload) ]_vars
C27_AcceptedAfterRefetch ==
  /\ call.fn = "verify_token" /\ call.step = "accept" /\ call.ok
  /\ net.fetches = 2 /\ keys = JWKS

\* Every company row has a membership row with role 'admin'.
EveryCompanyHasAdmin ==
  \A c \in DOMAIN company_table :
    \E k \in DOMAIN user_company_table :
      k[2] = c /\ user_company_table[k].role = "admin"

\* C28: every company or user-company operation that completes (is answered
\* 200 or 201) keeps every company row with at least one 'admin' membership
\* row.
C28_AdminRemains ==
  [][ (EveryCompanyHasAdmin /\ obs'.status \in { 200, 201 }) =>
        EveryCompanyHasAdmin' ]_vars

\* C29: once a delete of company c has returned 200, the company row of c
\* and every membership row of c are gone, whatever assignments ran at the
\* same time; and no membership row names a company that has no row.
C29_DeleteLeavesNothing ==
  /\ \A i \in Slots :
       (running[i].op = "delete_company" /\ running[i].status = 200) =>
         /\ running[i].key \notin DOMAIN company_table
         /\ \A k \in DOMAIN user_company_table : k[2] # running[i].key
  /\ \A k \in DOMAIN user_company_table : k[2] \in DOMAIN company_table

\* C30: of two registrations of one deviceId, whatever their interleaving,
\* at most one is answered 201, and the device row is the one the request
\* answered 201 wrote.
C30_OneRegistrationWins ==
  \A i, j \in Slots :
    (/\ running[i].op = "register_device" /\ running[i].status = 201
     /\ running[j].op = "register_device" /\ running[j].pc = "done"
     /\ running[j].key = running[i].key /\ i # j) =>
      /\ running[j].status # 201
      /\ device_table[running[i].key].createdBy = running[i].user

====
